---- MODULE Spec2Model ----
(***************************************************************************)
(* A model of the ddns_client protocol client (src/src/dice.rs) and of the *)
(* way src/src/main.rs drives it.                                          *)
(*                                                                         *)
(* Text is modelled as a sequence of one-character strings, so that line   *)
(* framing (read_line, writeln!), the split on ' ' and the integer parse   *)
(* of res_verify are computed character by character, as the code does.    *)
(***************************************************************************)
EXTENDS Integers, Sequences, FiniteSets, TLC

(***************************************************************************)
(* Bounds of the model.                                                    *)
(***************************************************************************)
\* Longest text handed to res_verify when it is driven directly.
MaxLen == 3
\* Most tokens in a token list handed to send when it is driven directly.
MaxTokens == 2
\* Most items (frames or fragments) the peer delivers in one arrival.
MaxQueue == 2
\* Most dot-separated parts of an address text handed to Information::new.
MaxParts == 4

(***************************************************************************)
(* Characters and text helpers.                                            *)
(***************************************************************************)
NL  == "\n"
SP  == " "
TAB == "\t"
DOT == "."

Digits == <<"0", "1", "2", "3", "4", "5", "6", "7", "8", "9">>

IsDigit(c) == \E i \in 1..10 : Digits[i] = c

DigitVal(c) == (CHOOSE i \in 1..10 : Digits[i] = c) - 1

\* The position of the first occurrence of character c in s, 0 when absent.
IndexOf(s, c) ==
    IF \E i \in 1..Len(s) : s[i] = c
    THEN CHOOSE i \in 1..Len(s) : s[i] = c /\ \A j \in 1..(i - 1) : s[j] # c
    ELSE 0

RECURSIVE Concat(_)
Concat(ss) == IF ss = <<>> THEN <<>> ELSE Head(ss) \o Concat(Tail(ss))

\* All sequences over set S of length 0..n.
SeqsUpTo(S, n) == UNION {[1..k -> S] : k \in 0..n}

(***************************************************************************)
(* Response Taxonomy: res_verify and the std routines it calls.            *)
(***************************************************************************)
OK == "Ok"
ErrNone == "None"
ResponseError ==
    <<"CommandError", "LoginError", "DbError", "IpAddressError",
      "NoConnection", "NotFound">>

Outcomes == {OK, ErrNone} \cup {ResponseError[i] : i \in 1..6}

\* res.split(' ').next().unwrap(): the text before the first space, the whole
\* text when it holds no space. split always yields one item, so the unwrap
\* cannot fail.
FirstField(res) ==
    LET i == IndexOf(res, SP)
    IN  IF i = 0 THEN res ELSE SubSeq(res, 1, i - 1)

I32Max == 2147483647
I32Min == (0 - I32Max) - 1

\* The digit loop of i32::from_str_radix: result = result * 10 (+|-) digit with
\* checked arithmetic; ok is FALSE when a step leaves the i32 range.
RECURSIVE AccumulateDigits(_, _, _)
AccumulateDigits(ds, acc, neg) ==
    IF ds = <<>> THEN [ok |-> TRUE, v |-> acc]
    ELSE LET d == DigitVal(Head(ds))
             mulOk == IF neg THEN acc >= 0 - (I32Max \div 10)
                             ELSE acc <= I32Max \div 10
             m == acc * 10
             addOk == IF neg THEN m >= I32Min + d ELSE m <= I32Max - d
         IN  IF ~mulOk THEN [ok |-> FALSE, v |-> 0]
             ELSE IF ~addOk THEN [ok |-> FALSE, v |-> 0]
             ELSE AccumulateDigits(Tail(ds), IF neg THEN m - d ELSE m + d, neg)

\* str::parse::<i32>: an optional single '+' or '-', then one or more decimal
\* digits and nothing else; a value outside the i32 range is an error.
ParseI32(s) ==
    LET signed == s # <<>> /\ Head(s) \in {"+", "-"}
        ds     == IF signed THEN Tail(s) ELSE s
        neg    == signed /\ Head(s) = "-"
        good   == ds # <<>> /\ \A i \in 1..Len(ds) : IsDigit(ds[i])
    IN  IF good THEN AccumulateDigits(ds, 0, neg)
        ELSE [ok |-> FALSE, v |-> 0]

\* A res_verify whose arms for 5 and 6 are exchanged.
res_verify_swapped(res) ==
    LET p == ParseI32(FirstField(res))
    IN  IF ~p.ok THEN ErrNone
        ELSE IF p.v = 0 THEN OK
        ELSE IF p.v = 5 THEN ResponseError[6]
        ELSE IF p.v = 6 THEN ResponseError[5]
        ELSE IF p.v \in 1..4 THEN ResponseError[p.v]
        ELSE ErrNone

res_verify(res) ==
    LET p == ParseI32(FirstField(res))
    IN  IF ~p.ok THEN ErrNone
        ELSE IF p.v = 0 THEN OK
        ELSE IF p.v \in 1..6 THEN ResponseError[p.v]
        ELSE ErrNone

(***************************************************************************)
(* Transport Framing: the bytes send writes and the line read_line takes.  *)
(***************************************************************************)
\* A send that ends every token line, and not only the frame, with a '.' line.
RECURSIVE FrameBytes_dot_per_token(_)
FrameBytes_dot_per_token(cmd) ==
    IF cmd = <<>> THEN <<DOT, NL>>
    ELSE Head(cmd) \o <<NL, DOT, NL>> \o FrameBytes_dot_per_token(Tail(cmd))

\* writeln!(stream, "{}", token) for each token, then writeln!(stream, ".").
RECURSIVE FrameBytes(_)
FrameBytes(cmd) ==
    IF cmd = <<>> THEN <<DOT, NL>>
    ELSE Head(cmd) \o <<NL>> \o FrameBytes(Tail(cmd))

\* BufWriter::new: the writer send wraps the stream in holds up to this many
\* bytes before it writes any of them through.
BufCapacity == 8192

\* A send that writes straight to the stream: a failed write is returned.
SendResult_unbuffered(bytes, accepted) ==
    IF accepted THEN OK ELSE "IoErr"

\* What send returns when the transport accepts the frame (accepted) or fails
\* the write. A frame that fits the BufWriter is written only when the writer
\* is dropped at the end of send, and a failure of that write is discarded;
\* a longer frame is written through by a writeln!, whose failure `?` returns.
SendResult(bytes, accepted) ==
    IF accepted \/ Len(bytes) <= BufCapacity THEN OK ELSE "IoErr"

\* Whether the stream holds a complete line.
HasLine(s) == IndexOf(s, NL) # 0

\* BufRead::read_line: the bytes up to and including the first line feed, or
\* everything left when the stream ends first (nothing at end-of-stream).
TakeLine(s) ==
    LET i == IndexOf(s, NL)
    IN  IF i = 0 THEN s ELSE SubSeq(s, 1, i)

DropLine(s) ==
    LET i == IndexOf(s, NL)
    IN  IF i = 0 THEN <<>> ELSE SubSeq(s, i + 1, Len(s))

\* A recv that takes any line starting with '.' for the terminator.
IsTerminator_prefix(line) == line # <<>> /\ Head(line) = DOT

\* The test that ends the loop of recv: ".\n" == &buf[len..].
IsTerminator(line) == line = <<DOT, NL>>

(***************************************************************************)
(* Credential Record and the command frames of the Authenticated Operation.*)
(***************************************************************************)
RECURSIVE DecStr(_)
DecStr(n) ==
    IF n < 10 THEN <<Digits[n + 1]>>
    ELSE DecStr(n \div 10) \o <<Digits[(n % 10) + 1]>>

\* Ipv4Addr's Display: the four octets in decimal, joined by dots.
Ipv4ToString(ip) ==
    DecStr(ip[1]) \o <<DOT>> \o DecStr(ip[2]) \o <<DOT>> \o
    DecStr(ip[3]) \o <<DOT>> \o DecStr(ip[4])

\* The parts of text between the occurrences of character c.
RECURSIVE SplitOn(_, _)
SplitOn(text, c) ==
    LET i == IndexOf(text, c)
    IN  IF i = 0 THEN <<text>>
        ELSE <<SubSeq(text, 1, i - 1)>> \o
             SplitOn(SubSeq(text, i + 1, Len(text)), c)

U8Max == 255
\* The longest text Ipv4Addr::from_str looks at: "255.255.255.255".
MaxIpv4Len == 15

\* An octet parser without the u8 range check.
ParseOctet_unchecked(t) ==
    IF /\ Len(t) \in 1..3
       /\ \A i \in 1..Len(t) : IsDigit(t[i])
       /\ Len(t) > 1 => t[1] # "0"
    THEN AccumulateDigits(t, 0, FALSE)
    ELSE [ok |-> FALSE, v |-> 0]

\* One octet of Ipv4Addr::from_str: one to three decimal digits, no leading
\* zero before another digit, a value that fits a u8.
ParseOctet(t) ==
    IF /\ Len(t) \in 1..3
       /\ \A i \in 1..Len(t) : IsDigit(t[i])
       /\ Len(t) > 1 => t[1] # "0"
       /\ AccumulateDigits(t, 0, FALSE).v <= U8Max
    THEN AccumulateDigits(t, 0, FALSE)
    ELSE [ok |-> FALSE, v |-> 0]

\* ToIpAddrs for &str and String: Ipv4Addr::from_str, four octets joined by
\* dots and nothing else.
to_ip_addrs(text) ==
    LET parts == SplitOn(text, DOT)
    IN  IF /\ Len(text) <= MaxIpv4Len
           /\ Len(parts) = 4
           /\ \A i \in 1..4 : ParseOctet(parts[i]).ok
        THEN [ok |-> TRUE, v |-> [i \in 1..4 |-> ParseOctet(parts[i]).v]]
        ELSE [ok |-> FALSE, v |-> <<0, 0, 0, 0>>]

Information(user, pass, host, dom, ipaddr) ==
    [user |-> user, pass |-> pass, host |-> host, dom |-> dom,
     ipaddr |-> ipaddr]

NoInfo == Information(<<>>, <<>>, <<>>, <<>>, <<0, 0, 0, 0>>)

\* The Credential Records the Authenticated Operation is run with.
Infos ==
    { NoInfo,
      Information(<<"u">>, <<"p">>, <<"h">>, <<"d">>, <<203, 0, 113, 5>>) }

LOGIN  == <<"L", "O", "G", "I", "N">>
MODIP  == <<"M", "O", "D", "I", "P">>
LOGOUT == <<"L", "O", "G", "O", "U", "T">>

LoginCmd(i) ==
    << LOGIN,
       <<"U", "S", "E", "R", "I", "D", ":">> \o i.user,
       <<"P", "A", "S", "S", "W", "O", "R", "D", ":">> \o i.pass >>

ModipCmd(i) ==
    << MODIP,
       <<"H", "O", "S", "T", "N", "A", "M", "E", ":">> \o i.host,
       <<"D", "O", "M", "N", "A", "M", "E", ":">> \o i.dom,
       <<"I", "P", "V", "4", ":">> \o Ipv4ToString(i.ipaddr) >>

LogoutCmd == << LOGOUT >>

(***************************************************************************)
(* Inputs: what the callers pass and what the peer may deliver.            *)
(***************************************************************************)
\* Tokens handed to send directly: any text of up to MaxTokLen characters,
\* among them a lone '.', and texts with a line break.
MaxTokLen == 2
Tokens == SeqsUpTo({"A", DOT, NL}, MaxTokLen)
TokenLists == SeqsUpTo(Tokens, MaxTokens)

\* Token lists handed to call directly.
CallCmds == SeqsUpTo({<<"A">>}, MaxTokens)

\* Texts handed to res_verify directly.
VerifyChars == {Digits[i] : i \in 1..10} \cup {"+", "-", SP, "k", NL}
VerifyTexts == SeqsUpTo(VerifyChars, MaxLen)

\* Address texts handed to Information::new: up to MaxParts parts joined by
\* dots, each an octet in range, out of range, with a leading zero, or empty.
OctetTexts ==
    { <<"0">>, <<"1">>, <<"5">>, <<"1", "1", "3">>, <<"2", "0", "3">>,
      <<"2", "5", "6">>, <<"9", "9", "9">>, <<"0", "1">>, <<>> }

RECURSIVE JoinDots(_)
JoinDots(ps) ==
    IF Len(ps) = 1 THEN ps[1]
    ELSE ps[1] \o <<DOT>> \o JoinDots(Tail(ps))

AddrTexts == {JoinDots(ps) : ps \in SeqsUpTo(OctetTexts, MaxParts) \ {<<>>}}

\* What main is run with: the address argument, and the fields it reads from
\* standard input once the argument has parsed.
MainInputs ==
    { [arg |-> JoinDots(<< <<"0">>, <<"0">>, <<"0">>, <<"0">> >>),
       fields |-> NoInfo],
      [arg |-> JoinDots(<< <<"2", "0", "3">>, <<"0">>, <<"1", "1", "3">>,
                           <<"5">> >>),
       fields |-> Information(<<"u">>, <<"p">>, <<"h">>, <<"d">>,
                              <<0, 0, 0, 0>>)],
      [arg |-> JoinDots(<< <<"9", "9", "9">>, <<"1">>, <<"1">>, <<"1">> >>),
       fields |-> Information(<<"u">>, <<"p">>, <<"h">>, <<"d">>,
                              <<0, 0, 0, 0>>)],
      [arg |-> JoinDots(<< <<"2", "0", "3">>, <<"0">>, <<"1", "1", "3">> >>),
       fields |-> NoInfo],
      [arg |-> <<"x">>, fields |-> NoInfo] }

StatusFields ==
    {<<Digits[i]>> : i \in 1..8} \cup {<<"x">>, <<"-", "1">>, <<"+", "0">>}

\* A well-formed response frame: a status line "<field> k" and the terminator.
ReplyFrame(f) == f \o <<SP, "k", NL, DOT, NL>>

\* What the peer delivers at a time: well-formed frames, frames whose status
\* line has no space or a tab after the code, a frame with a body line that
\* starts with '.', and fragments (a status line alone, a '.' with no line
\* feed, a terminator alone).
Items ==
    {ReplyFrame(f) : f \in StatusFields}
    \cup { <<"0", NL, DOT, NL>>,
           <<"0", TAB, "k", NL, DOT, NL>>,
           <<"0", SP, "k", NL, DOT, "k", NL, DOT, NL>>,
           <<"0", SP, "k", NL>>,
           <<DOT>>,
           <<DOT, NL>> }

Chunks == {Concat(q) : q \in SeqsUpTo(Items, MaxQueue) \ {<<>>}}

(***************************************************************************)
(* State.                                                                  *)
(***************************************************************************)
VARIABLES
    stage,    \* the operation in progress (see Stages)
    pc,       \* where it stands: send, recv, verify, returned, exit, panic,
              \* and parse, new, usage for the address text
    info,     \* the Credential Record run_modip was given
    addr,     \* the address text still to be parsed
    cmd,      \* the token list a direct send or call was given
    pending,  \* the failure send_login/send_modip holds while it cleans up
    inb,      \* bytes delivered by the peer and not yet read
    closed,   \* the peer has ended the stream
    buf,      \* the response buffer recv accumulates into
    eofSeen,  \* read_line has returned Ok(0) in the receive in progress
    wire,     \* bytes the transport has accepted
    log,      \* the sends, classified responses and I/O failures so far
    result    \* what the operation returned

vars ==
    <<stage, pc, info, addr, cmd, pending, inb, closed, buf, eofSeen, wire,
      log, result>>

\* The stages of main: the greeting read, then run_modip's three calls and
\* the two clean-up sends.
MainStages ==
    {"greeting", "login", "login_cleanup", "modip", "modip_cleanup", "logout"}
\* The library operations driven directly.
DirectStages == {"call", "send", "recv", "res_verify"}
\* main's parse of its address argument, and Information::new on a text.
AddressStages == {"args", "new"}
Stages == MainStages \cup DirectStages \cup AddressStages

NoResult == "NoResult"

Ev(k, c, r) == [k |-> k, cmd |-> c, r |-> r]
SendEv(c) == Ev("send", c, "")
RecvEv(r) == Ev("recv", <<>>, r)
FailEv(op) == Ev("iofail", <<>>, op)

\* MODIP sent before LOGIN.
StageCmd_swapped(st, i, c) ==
    CASE st = "login" -> ModipCmd(i)
      [] st = "modip" -> LoginCmd(i)
      [] st \in {"logout", "login_cleanup", "modip_cleanup"} -> LogoutCmd
      [] OTHER -> c

\* The token list the send of a stage writes.
StageCmd(st, i, c) ==
    CASE st = "login" -> LoginCmd(i)
      [] st = "modip" -> ModipCmd(i)
      [] st \in {"logout", "login_cleanup", "modip_cleanup"} -> LogoutCmd
      [] OTHER -> c

InitMain ==
    /\ stage = "greeting" /\ pc = "recv"
    /\ info \in Infos /\ cmd = <<>> /\ buf = <<>>

InitCall ==
    /\ stage = "call" /\ pc = "send"
    /\ info = NoInfo /\ cmd \in CallCmds /\ buf = <<>>

InitSend ==
    /\ stage = "send" /\ pc = "send"
    /\ info = NoInfo /\ cmd \in TokenLists /\ buf = <<>>

InitRecv ==
    /\ stage = "recv" /\ pc = "recv"
    /\ info = NoInfo /\ cmd = <<>> /\ buf = <<>>

InitVerify ==
    /\ stage = "res_verify" /\ pc = "verify"
    /\ info = NoInfo /\ cmd = <<>> /\ buf \in VerifyTexts

\* main before it parses its argument: the record holds the unspecified
\* address; its fields are the ones main will have read by the time it builds
\* the client.
InitArgs ==
    /\ stage = "args" /\ pc = "parse"
    /\ \E m \in MainInputs : info = m.fields /\ addr = m.arg
    /\ cmd = <<>> /\ buf = <<>>

InitNew ==
    /\ stage = "new" /\ pc = "new"
    /\ info = NoInfo /\ addr \in AddrTexts
    /\ cmd = <<>> /\ buf = <<>>

Init ==
    /\ \/ InitArgs
       \/ InitNew
       \/ addr = <<>> /\
             (InitMain \/ InitCall \/ InitSend \/ InitRecv \/ InitVerify)
    /\ pending = NoResult
    /\ inb = <<>>
    /\ closed = FALSE
    /\ eofSeen = FALSE
    /\ wire = <<>>
    /\ log = <<>>
    /\ result = NoResult

(***************************************************************************)
(* Control flow: what follows a send and what follows a classification.    *)
(***************************************************************************)
Goto(st, p, pend, res) ==
    [stage |-> st, pc |-> p, pending |-> pend, result |-> res]

\* After send returned sr. call unwraps it and goes on to recv_res; the
\* clean-up sends of send_login/send_modip unwrap it and return the failure
\* they hold; a direct send returns it.
OnSent(st, sr, pend) ==
    CASE st \in {"login", "modip", "logout", "call"} ->
            IF sr = OK THEN Goto(st, "recv", pend, NoResult)
            ELSE Goto(st, "panic", pend, NoResult)
      [] st \in {"login_cleanup", "modip_cleanup"} ->
            IF sr = OK THEN Goto(st, "returned", pend, pend)
            ELSE Goto(st, "panic", pend, NoResult)
      [] OTHER -> Goto(st, "returned", pend, sr)

\* A main that discards the outcome of the greeting.
main_greeting_discarded(r) == Goto("login", "send", NoResult, NoResult)

\* main: client.recv_res().unwrap() on the greeting, then run_modip.
main_greeting(r) ==
    IF r = OK THEN Goto("login", "send", NoResult, NoResult)
    ELSE Goto("greeting", "panic", NoResult, NoResult)

\* send_login that returns a failure without the clean-up LOGOUT.
send_login_no_cleanup(r) ==
    IF r = OK THEN Goto("modip", "send", NoResult, NoResult)
    ELSE Goto("login", "returned", NoResult, r)

\* send_login that calls LOGIN a second time after a first failed reply.
send_login_retry(r) ==
    IF r = OK THEN Goto("modip", "send", NoResult, NoResult)
    ELSE IF Len(SelectSeq(log, LAMBDA e : e.k = "recv")) < 2
         THEN Goto("login", "send", NoResult, NoResult)
    ELSE Goto("login_cleanup", "send", r, NoResult)

\* send_login on the outcome of its call: a failure is held while LOGOUT is
\* sent; on success run_modip's `?` lets send_modip follow.
send_login(r) ==
    IF r = OK THEN Goto("modip", "send", NoResult, NoResult)
    ELSE Goto("login_cleanup", "send", r, NoResult)

\* send_modip that turns its clean-up into an awaited send_logout.
send_modip_awaits_logout(r) ==
    IF r = OK THEN Goto("logout", "send", NoResult, NoResult)
    ELSE Goto("logout", "send", NoResult, NoResult)

\* send_modip on the outcome of its call, likewise; send_logout follows.
send_modip(r) ==
    IF r = OK THEN Goto("logout", "send", NoResult, NoResult)
    ELSE Goto("modip_cleanup", "send", r, NoResult)

\* run_modip that discards the outcome of send_logout.
send_logout_discarded(r) == Goto("logout", "returned", NoResult, OK)

\* send_logout that answers a failed reply with a clean-up LOGOUT, the way
\* send_login and send_modip do.
send_logout_cleanup(r) ==
    IF r = OK THEN Goto("logout", "returned", NoResult, r)
    ELSE Goto("modip_cleanup", "send", r, NoResult)

\* send_logout returns the outcome of its call, and run_modip returns that.
send_logout(r) == Goto("logout", "returned", NoResult, r)

\* A call that reports success whatever recv_res returned.
call_unit(st, r) == Goto(st, "returned", NoResult, OK)

\* call returns what recv_res returned.
call(st, r) == Goto(st, "returned", NoResult, r)

\* After recv_res classified a response as r.
OnOutcome(st, r) ==
    CASE st = "greeting" -> main_greeting(r)
      [] st = "login" -> send_login(r)
      [] st = "modip" -> send_modip(r)
      [] st = "logout" -> send_logout(r)
      [] OTHER -> call(st, r)

(***************************************************************************)
(* Actions.                                                                *)
(***************************************************************************)
\* send: frames the token list into a BufWriter over the stream; the transport
\* accepts the bytes or fails the write.
Send ==
    /\ pc = "send"
    /\ \E accepted \in BOOLEAN :
         LET c     == StageCmd(stage, info, cmd)
             bytes == FrameBytes(c)
             nx    == OnSent(stage, SendResult(bytes, accepted), pending)
         IN  /\ wire' = IF accepted THEN wire \o bytes ELSE wire
             /\ log' = log \o <<SendEv(c)>> \o
                       (IF accepted THEN <<>> ELSE <<FailEv("write")>>)
             /\ stage' = nx.stage
             /\ pc' = nx.pc
             /\ pending' = nx.pending
             /\ result' = nx.result
    /\ buf' = <<>>
    /\ eofSeen' = FALSE
    /\ UNCHANGED <<info, addr, cmd, inb, closed>>

\* The peer delivers bytes while the client waits for the first line of a
\* response, and may end the stream behind them.
Arrive ==
    /\ pc = "recv"
    /\ ~closed
    /\ inb = <<>>
    /\ buf = <<>>
    /\ \E ch \in Chunks, fin \in BOOLEAN :
         /\ inb' = ch
         /\ closed' = fin
    /\ UNCHANGED <<stage, pc, info, addr, cmd, pending, buf, eofSeen, wire, log,
                   result>>

\* The peer ends the stream where no complete line is left to read.
Close ==
    /\ pc = "recv"
    /\ ~closed
    /\ ~HasLine(inb)
    /\ closed' = TRUE
    /\ UNCHANGED <<stage, pc, info, addr, cmd, pending, inb, buf, eofSeen, wire,
                   log, result>>

\* One turn of the loop of recv: read_line appends a line to buf (nothing at
\* end-of-stream), and the loop ends when the appended part is ".\n".
RecvLine ==
    /\ pc = "recv"
    /\ HasLine(inb) \/ closed
    /\ LET line == TakeLine(inb)
       IN  /\ buf' = buf \o line
           /\ inb' = DropLine(inb)
           /\ eofSeen' = (eofSeen \/ line = <<>>)
           /\ IF IsTerminator(line)
              THEN IF stage = "recv"
                   THEN pc' = "returned" /\ result' = OK
                   ELSE pc' = "verify" /\ result' = result
              ELSE pc' = pc /\ result' = result
    /\ UNCHANGED <<stage, info, addr, cmd, pending, closed, wire, log>>

\* read_line fails (reset, timeout): recv returns the error, which recv_res
\* unwraps.
ReadFault ==
    /\ pc = "recv"
    /\ log' = log \o <<FailEv("read")>>
    /\ IF stage = "recv"
       THEN pc' = "returned" /\ result' = "IoErr"
       ELSE pc' = "panic" /\ result' = result
    /\ UNCHANGED <<stage, info, addr, cmd, pending, inb, closed, buf, eofSeen, wire>>

\* recv_res classifies the response read (res_verify driven directly
\* classifies its argument) and the caller acts on the outcome.
Verify ==
    /\ pc = "verify"
    /\ LET r  == res_verify(buf)
           nx == OnOutcome(stage, r)
       IN  /\ log' = log \o <<RecvEv(r)>>
           /\ stage' = nx.stage
           /\ pc' = nx.pc
           /\ pending' = nx.pending
           /\ result' = nx.result
    /\ buf' = IF stage = "res_verify" THEN buf ELSE <<>>
    /\ UNCHANGED <<info, addr, cmd, inb, closed, eofSeen, wire>>

\* main unwraps what run_modip returned.
Exit ==
    /\ stage \in MainStages
    /\ pc = "returned"
    /\ pc' = IF result = OK THEN "exit" ELSE "panic"
    /\ UNCHANGED <<stage, info, addr, cmd, pending, inb, closed, buf, eofSeen, wire,
                   log, result>>

\* main: the address argument is parsed; on an error main prints the usage
\* and returns, otherwise the record gets the address, then the fields of
\* standard input, and the client is built.
ParseArg ==
    /\ stage = "args"
    /\ pc = "parse"
    /\ LET p == to_ip_addrs(addr)
       IN  IF p.ok
           THEN /\ info' = [info EXCEPT !.ipaddr = p.v]
                /\ stage' = "greeting"
                /\ pc' = "recv"
                /\ addr' = <<>>
           ELSE /\ pc' = "usage"
                /\ UNCHANGED <<stage, info, addr>>
    /\ UNCHANGED <<cmd, pending, inb, closed, buf, eofSeen, wire, log, result>>

\* Information::new on an address text: to_ip_addrs, unwrapped.
New ==
    /\ stage = "new"
    /\ pc = "new"
    /\ LET p == to_ip_addrs(addr)
       IN  IF p.ok
           THEN /\ info' = [info EXCEPT !.ipaddr = p.v]
                /\ pc' = "returned"
                /\ result' = OK
           ELSE /\ pc' = "panic"
                /\ UNCHANGED <<info, result>>
    /\ UNCHANGED <<stage, addr, cmd, pending, inb, closed, buf, eofSeen, wire,
                   log>>

Next ==
    \/ ParseArg
    \/ New
    \/ Send
    \/ Arrive
    \/ Close
    \/ RecvLine
    \/ ReadFault
    \/ Verify
    \/ Exit

Spec == Init /\ [][Next]_vars

TypeOK ==
    /\ stage \in Stages
    /\ pc \in {"send", "recv", "verify", "returned", "exit", "panic", "parse",
              "new", "usage"}
    /\ result \in Outcomes \cup {NoResult, "IoErr"}
    /\ pending \in Outcomes \cup {NoResult}
    /\ closed \in BOOLEAN /\ eofSeen \in BOOLEAN

(***************************************************************************)
(* Reading the log.                                                        *)
(***************************************************************************)
IsSend(e) == e.k = "send"
IsRecv(e) == e.k = "recv"
IsFail(e) == e.k = "iofail"
NotFail(e) == e.k # "iofail"

\* The sends and classifications in order, I/O failures left out.
Trace == SelectSeq(log, NotFail)
\* The outcomes of the responses classified so far, in order.
Outs == LET rs == SelectSeq(log, IsRecv) IN [i \in 1..Len(rs) |-> rs[i].r]
\* The token lists sent so far, in order.
SentCmds == LET ss == SelectSeq(log, IsSend) IN [i \in 1..Len(ss) |-> ss[i].cmd]
\* No write or read has failed.
NoFault == \A i \in 1..Len(log) : ~IsFail(log[i])
LastIsWriteFault == log # <<>> /\ log[Len(log)] = FailEv("write")

InMain == stage \in MainStages
Failures == Outcomes \ {OK}

\* A response whose first line is "0 <text>".
StatusZero(text) == Len(text) >= 2 /\ text[1] = "0" /\ text[2] = SP

(***************************************************************************)
(* C1: in run_modip, once the LOGIN reply was classified Success and the   *)
(* MODIP reply a failure, no further reply is awaited or classified, the   *)
(* operation returns only after one LOGOUT frame was sent behind the MODIP *)
(* frame, and what it returns is the MODIP failure.                        *)
(***************************************************************************)
C1_ModipFailureRollsBack ==
    LET outs == Outs
        sent == SentCmds
        tr == Trace
    IN  (InMain /\ Len(outs) >= 3 /\ outs[2] = OK /\ outs[3] # OK) =>
            /\ Len(outs) = 3
            /\ pc \notin {"recv", "verify"}
            /\ pc = "send" =>
                  /\ result = NoResult
                  /\ sent = <<LoginCmd(info), ModipCmd(info)>>
            /\ pc # "send" =>
                  /\ result = outs[3]
                  /\ tr = <<RecvEv(OK), SendEv(LoginCmd(info)), RecvEv(OK),
                               SendEv(ModipCmd(info)), RecvEv(outs[3]),
                               SendEv(LogoutCmd)>>
                  /\ NoFault =>
                        wire = FrameBytes(LoginCmd(info)) \o
                               FrameBytes(ModipCmd(info)) \o FrameBytes(LogoutCmd)

C1_Witness ==
    /\ stage = "modip_cleanup" /\ pc = "returned" /\ NoFault
    /\ result = "DbError"
    /\ Outs = <<OK, OK, "DbError">>

(***************************************************************************)
(* C2: in run_modip, once the LOGIN reply was classified a failure, no     *)
(* further reply is awaited or classified, no MODIP frame is ever sent,    *)
(* the only frame sent after it is one LOGOUT, and the operation returns   *)
(* the LOGIN failure.                                                      *)
(***************************************************************************)
C2_LoginFailureRollsBack ==
    LET outs == Outs
        sent == SentCmds
        tr == Trace
    IN  (InMain /\ Len(outs) >= 2 /\ outs[2] # OK) =>
            /\ Len(outs) = 2
            /\ pc \notin {"recv", "verify"}
            /\ \A i \in 1..Len(sent) : sent[i] # ModipCmd(info)
            /\ pc = "send" =>
                  /\ result = NoResult
                  /\ sent = <<LoginCmd(info)>>
            /\ pc # "send" =>
                  /\ result = outs[2]
                  /\ tr = <<RecvEv(OK), SendEv(LoginCmd(info)),
                               RecvEv(outs[2]), SendEv(LogoutCmd)>>
                  /\ NoFault =>
                        wire = FrameBytes(LoginCmd(info)) \o FrameBytes(LogoutCmd)

C2_Witness ==
    /\ stage = "login_cleanup" /\ pc = "returned" /\ NoFault
    /\ result = "LoginError"
    /\ Outs = <<OK, "LoginError">>

(***************************************************************************)
(* C3: run_modip returns success only when the reply to the final LOGOUT   *)
(* call was classified Success, after Success for LOGIN and MODIP; it      *)
(* returns a failure only when that failure is the first one among the     *)
(* LOGIN, MODIP and LOGOUT replies, and nothing was classified after it;   *)
(* when a LOGOUT reply was classified, its outcome is the result.          *)
(***************************************************************************)
C3_FirstFailureOrConfirmedLogout ==
    LET outs == Outs
        tr == Trace
    IN  (InMain /\ result # NoResult) =>
            /\ result \in Outcomes
            /\ Len(outs) \in 2..4
            /\ outs[1] = OK
            /\ result = OK =>
                  /\ outs = <<OK, OK, OK, OK>>
                  /\ tr[Len(tr) - 1] = SendEv(LogoutCmd)
                  /\ tr[Len(tr)] = RecvEv(OK)
            /\ result # OK =>
                  /\ outs[Len(outs)] = result
                  /\ \A j \in 1..(Len(outs) - 1) : outs[j] = OK
            /\ Len(outs) = 4 => result = outs[4]

C3_Witness ==
    /\ InMain /\ pc = "returned"
    /\ Outs = <<OK, OK, OK, "NotFound">>
    /\ result = "NotFound"

(***************************************************************************)
(* C4: a reply whose first line is "0 <text>" is classified Success, and   *)
(* when the greeting, LOGIN, MODIP and LOGOUT replies were all classified  *)
(* Success, run_modip returns success after exactly one greeting read and  *)
(* three send-then-receive round trips, LOGIN, MODIP, LOGOUT in that order,*)
(* with nothing else on the wire.                                          *)
(***************************************************************************)
C4_FullSuccess ==
    /\ [][(InMain /\ pc = "verify" /\ StatusZero(buf)) =>
              log' = log \o <<RecvEv(OK)>>]_vars
    /\ []((InMain /\ Outs = <<OK, OK, OK, OK>>) =>
              /\ result = OK
              /\ pc \in {"returned", "exit"}
              /\ Trace = <<RecvEv(OK),
                           SendEv(LoginCmd(info)), RecvEv(OK),
                           SendEv(ModipCmd(info)), RecvEv(OK),
                           SendEv(LogoutCmd), RecvEv(OK)>>
              /\ NoFault =>
                    wire = FrameBytes(LoginCmd(info)) \o
                           FrameBytes(ModipCmd(info)) \o FrameBytes(LogoutCmd))

C4_Witness ==
    /\ stage = "logout" /\ pc = "exit" /\ NoFault
    /\ result = OK
    /\ Len(Trace) = 7
    /\ info # NoInfo

(***************************************************************************)
(* C5: when the LOGIN or MODIP reply was a failure and the transport fails *)
(* the write of the clean-up LOGOUT, send does not report it and run_modip *)
(* still returns the LOGIN or MODIP failure.                               *)
(***************************************************************************)
C5_CleanupFailureDoesNotMask ==
    (stage \in {"login_cleanup", "modip_cleanup"} /\ pc # "send"
        /\ LastIsWriteFault) =>
        /\ result \in Failures
        /\ result = Outs[Len(Outs)]
        /\ log[Len(log) - 1] = SendEv(LogoutCmd)

C5_Witness ==
    /\ stage = "modip_cleanup" /\ pc = "panic"
    /\ LastIsWriteFault
    /\ result = "IpAddressError"

(***************************************************************************)
(* C6: once read_line has reported end-of-stream before a terminator line  *)
(* was read, recv has stopped with a transport error (which recv_res       *)
(* unwraps) and is not reading on.                                         *)
(***************************************************************************)
C6_RecvStopsAtEndOfStream ==
    eofSeen =>
        \/ stage = "recv" /\ pc = "returned" /\ result = "IoErr"
        \/ stage # "recv" /\ pc = "panic"

(***************************************************************************)
(* C7: once a write or read inside call, or the greeting read, has failed, *)
(* the operation has ended, with no Response Taxonomy outcome for its      *)
(* caller (a transport error, however it is raised), and has sent no frame *)
(* after the failure.                                                      *)
(***************************************************************************)
C7_IoFailureAborts ==
    \A i \in 1..Len(log) :
        (/\ IsFail(log[i])
         /\ stage \in {"greeting", "login", "modip", "logout", "call",
                       "login_cleanup", "modip_cleanup"}
         /\ ~(stage \in {"login_cleanup", "modip_cleanup"} /\ i = Len(log)
              /\ log[i] = FailEv("write"))) =>
            /\ \A j \in (i + 1)..Len(log) : ~IsSend(log[j])
            /\ pc \notin {"send", "recv", "verify"}
            /\ result \notin Outcomes

(***************************************************************************)
(* The Response Taxonomy as the specification words it: the text before    *)
(* the first space, read as a decimal integer.                             *)
(***************************************************************************)
TaxonomyNames ==
    <<"CommandError", "LoginError", "DbError", "IpAddressError",
      "NoConnection", "NotFound">>

\* The length of the leading field: up to the first space, or the whole text.
LeadingLen(text) ==
    CHOOSE k \in 0..Len(text) :
        /\ \A j \in 1..k : text[j] # SP
        /\ k = Len(text) \/ text[k + 1] = SP

IsDecimal(f) ==
    LET ds == IF f # <<>> /\ f[1] \in {"+", "-"} THEN SubSeq(f, 2, Len(f)) ELSE f
    IN  ds # <<>> /\ \A j \in 1..Len(ds) : ds[j] \in {Digits[d] : d \in 1..10}

\* Whether decimal text f denotes n, for n in 0..9: an optional sign ('-' only
\* before zero), zeros, then n's digit.
Denotes(f, n) ==
    LET ds == IF f[1] \in {"+", "-"} THEN SubSeq(f, 2, Len(f)) ELSE f
    IN  /\ f[1] = "-" => n = 0
        /\ ds[Len(ds)] = Digits[n + 1]
        /\ \A j \in 1..(Len(ds) - 1) : ds[j] = "0"

Taxonomy(text) ==
    LET f == SubSeq(text, 1, LeadingLen(text))
    IN  IF ~IsDecimal(f) THEN ErrNone
        ELSE IF Denotes(f, 0) THEN OK
        ELSE IF \E n \in 1..6 : Denotes(f, n)
             THEN TaxonomyNames[CHOOSE n \in 1..6 : Denotes(f, n)]
        ELSE ErrNone

(***************************************************************************)
(* C8: res_verify returns, for the text "<c> <rest>" with c in 0..6,       *)
(* Success for 0 and the c-th named failure for 1..6, and Unrecognized     *)
(* when the leading field is not a number or is an integer outside 0..6;   *)
(* it returns for every text and neither reads nor writes the connection.  *)
(***************************************************************************)
C8_ResponseTaxonomy ==
    stage = "res_verify" =>
        /\ pc \in {"verify", "returned"}
        /\ wire = <<>> /\ inb = <<>> /\ ~closed
        /\ pc = "returned" =>
              /\ result \in Outcomes
              /\ result = Taxonomy(buf)
              /\ \A c \in 0..6 :
                    (Len(buf) >= 2 /\ buf[1] = Digits[c + 1] /\ buf[2] = SP) =>
                        result = IF c = 0 THEN OK ELSE TaxonomyNames[c]

C8_Witness ==
    /\ stage = "res_verify" /\ pc = "returned"
    /\ buf = <<"6", SP, "k">>
    /\ result = "NotFound"

(***************************************************************************)
(* C9: call sends exactly one complete frame before it starts to read,     *)
(* reads exactly one response frame (through its first '.' line), and      *)
(* returns the classification of that frame.                               *)
(***************************************************************************)
CallStages == {"call", "login", "modip", "logout"}

ThisCmd == StageCmd(stage, info, cmd)

\* text is one response frame: it ends with a '.' line and holds no other.
OneFrame(text) ==
    /\ Len(text) >= 2
    /\ SubSeq(text, Len(text) - 1, Len(text)) = <<DOT, NL>>
    /\ Len(text) > 2 => text[Len(text) - 2] = NL
    /\ \A i \in 1..(Len(text) - 2) :
          ~(/\ text[i] = DOT /\ text[i + 1] = NL
            /\ (i = 1 \/ text[i - 1] = NL))

EndsWith(w, t) ==
    Len(w) >= Len(t) /\ SubSeq(w, Len(w) - Len(t) + 1, Len(w)) = t

C9_CallSendsReadsClassifies ==
    /\ []((stage \in CallStages /\ pc \in {"recv", "verify"}) =>
            /\ Trace[Len(Trace)] = SendEv(ThisCmd)
            /\ stage = "call" => SentCmds = <<cmd>>
            /\ NoFault => EndsWith(wire, FrameBytes(ThisCmd))
            /\ (NoFault /\ stage = "call") => wire = FrameBytes(cmd)
            /\ pc = "verify" => OneFrame(buf))
    /\ [][(stage \in CallStages /\ pc = "verify") =>
            /\ log' = log \o <<RecvEv(Taxonomy(buf))>>
            /\ inb' = inb
            /\ wire' = wire
            /\ stage = "call" =>
                  /\ pc' = "returned"
                  /\ result' = Taxonomy(buf)
                  /\ buf = ReplyFrame(<<"0">>) => result' = OK
                  /\ buf = ReplyFrame(<<"2">>) => result' = "LoginError"
                  /\ buf = ReplyFrame(<<"x">>) => result' = ErrNone]_vars

C9_Witness ==
    /\ stage = "call" /\ pc = "returned" /\ NoFault
    /\ cmd = <<<<"A">>>>
    /\ wire = <<"A", NL, DOT, NL>>
    /\ log = <<SendEv(cmd), RecvEv("LoginError")>>
    /\ result = "LoginError"

(***************************************************************************)
(* C10: when no token sent is '.' or holds a line break and no write       *)
(* failed, the lines on the wire are, frame after frame, the tokens in     *)
(* order followed by one '.' line: each frame has exactly one '.' line,    *)
(* its last.                                                               *)
(***************************************************************************)
RECURSIVE WireLines(_)
WireLines(w) ==
    IF w = <<>> THEN <<>>
    ELSE IF \A i \in 1..Len(w) : w[i] # NL THEN <<w>>
    ELSE LET n == CHOOSE i \in 1..Len(w) :
                      w[i] = NL /\ \A j \in 1..(i - 1) : w[j] # NL
         IN  <<SubSeq(w, 1, n - 1)>> \o WireLines(SubSeq(w, n + 1, Len(w)))

ValidToken(t) == t # <<DOT>> /\ \A i \in 1..Len(t) : t[i] # NL

ValidCmd(c) == \A i \in 1..Len(c) : ValidToken(c[i])

RECURSIVE ExpectedLines(_)
ExpectedLines(cs) ==
    IF cs = <<>> THEN <<>>
    ELSE Head(cs) \o <<(<<DOT>>)>> \o ExpectedLines(Tail(cs))

C10_FrameHasOneFinalTerminator ==
    LET sent == SentCmds
    IN  (NoFault /\ \A i \in 1..Len(sent) : ValidCmd(sent[i])) =>
            /\ wire = <<>> \/ wire[Len(wire)] = NL
            /\ WireLines(wire) = ExpectedLines(sent)
            /\ (stage = "send" /\ pc = "returned") =>
                  LET ls == WireLines(wire)
                  IN  /\ result = OK
                      /\ Len(ls) = Len(cmd) + 1
                      /\ \A i \in 1..Len(cmd) : ls[i] = cmd[i]
                      /\ ls[Len(ls)] = <<DOT>>
                      /\ Cardinality({i \in 1..Len(ls) : ls[i] = <<DOT>>}) = 1

C10_Witness ==
    /\ stage = "send" /\ pc = "returned" /\ NoFault
    /\ cmd = << <<"A">>, <<DOT, "A">> >>
    /\ wire = <<"A", NL, DOT, "A", NL, DOT, NL>>

(***************************************************************************)
(* C11: every turn of recv moves exactly one line from the stream to the   *)
(* end of the buffer; recv goes on while the buffer holds no '.' line and  *)
(* returns with exactly one frame in it (lines that only start with '.'    *)
(* do not end it); between receives the stream is left untouched, so a     *)
(* frame queued behind is read whole by the next receive.                  *)
(***************************************************************************)
\* text holds a line equal to '.'.
HasTerminatorLine(text) ==
    \E i \in 1..(Len(text) - 1) :
        text[i] = DOT /\ text[i + 1] = NL /\ (i = 1 \/ text[i - 1] = NL)

\* p is one line: it ends with its only line feed.
OneLine(p) ==
    /\ p # <<>>
    /\ p[Len(p)] = NL
    /\ \A i \in 1..(Len(p) - 1) : p[i] # NL

C11_RecvTakesOneFrame ==
    /\ []((pc = "verify" /\ stage # "res_verify") => OneFrame(buf))
    /\ []((stage = "recv" /\ pc = "returned" /\ result = OK) => OneFrame(buf))
    /\ [](pc = "recv" => ~HasTerminatorLine(buf))
    /\ [][\/ /\ inb' = inb
             /\ buf' \in {buf, <<>>}
          \/ /\ inb = <<>> /\ buf = <<>> /\ buf' = <<>>
          \/ /\ pc = "recv"
             /\ buf' \o inb' = buf \o inb
             /\ Len(buf') > Len(buf)
             /\ SubSeq(buf', 1, Len(buf)) = buf
             /\ OneLine(SubSeq(buf', Len(buf) + 1, Len(buf'))) \/ inb' = <<>>
         ]_vars

C11_Witness ==
    /\ stage = "login" /\ pc = "verify"
    /\ buf = <<"0", SP, "k", NL, DOT, "k", NL, DOT, NL>>
    /\ inb = ReplyFrame(<<"3">>)

(***************************************************************************)
(* C12: in main nothing is sent before a greeting was read and classified  *)
(* Success, and when the greeting is classified a failure the run ends at  *)
(* once with nothing written, no LOGOUT either.                            *)
(***************************************************************************)
C12_GreetingFirst ==
    LET outs == Outs
        sent == SentCmds
    IN  InMain =>
            /\ (sent # <<>> \/ wire # <<>> \/ stage # "greeting") =>
                  log # <<>> /\ log[1] = RecvEv(OK)
            /\ stage = "greeting" => pc \in {"recv", "verify", "panic"}
            /\ (outs # <<>> /\ outs[1] # OK) =>
                  /\ stage = "greeting" /\ pc = "panic"
                  /\ log = <<RecvEv(outs[1])>>
                  /\ wire = <<>>
                  /\ result = NoResult

C12_Witness ==
    /\ stage = "greeting" /\ pc = "panic"
    /\ log = <<RecvEv("CommandError")>>
    /\ wire = <<>>


\* ---------------------------------------------------------------------------
\* C13
\* ---------------------------------------------------------------------------

\* An IPv4 literal, read off its definition: four parts separated by three
\* dots, each one to three decimal digits without a leading zero, each at most
\* 255.
DotCount(text) == Cardinality({i \in 1..Len(text) : text[i] = DOT})
PartOf(text, k) ==
    LET dots == {i \in 1..Len(text) : text[i] = DOT}
        before == {i \in 1..Len(text) :
                      Cardinality({d \in dots : d < i}) = k - 1 /\ i \notin dots}
    IN  [j \in 1..Cardinality(before) |->
            CHOOSE i \in before : Cardinality({h \in before : h < i}) = j - 1]
DecimalValue(t) ==
    IF Len(t) = 1 THEN DigitVal(t[1])
    ELSE IF Len(t) = 2 THEN 10 * DigitVal(t[1]) + DigitVal(t[2])
    ELSE 100 * DigitVal(t[1]) + 10 * DigitVal(t[2]) + DigitVal(t[3])
ValidOctetText(t) ==
    /\ Len(t) \in 1..3
    /\ \A i \in 1..Len(t) : t[i] \in {"0", "1", "2", "3", "4", "5", "6", "7", "8", "9"}
    /\ Len(t) > 1 => t[1] # "0"
    /\ DecimalValue(t) <= 255
ValidIpv4Text(text) ==
    /\ DotCount(text) = 3
    /\ \A k \in 1..4 : ValidOctetText([j \in 1..Len(PartOf(text, k)) |->
                                          text[PartOf(text, k)[j]]])

\* C13 as stated: Information::new on a text that is not an IPv4 literal
\* returns an address-parse error to its caller.
C13_InvalidTextReturnsError ==
    (stage = "new" /\ pc # "new" /\ ~ValidIpv4Text(addr)) =>
        (pc = "returned" /\ result = "AddrParseError")

\* C13, amended: Information::new on a text that is not an IPv4 literal does
\* not return: it panics, and no record and no result exist afterwards; on an
\* IPv4 literal it returns a record whose address prints back as that text.
\* main parses its argument itself, leaves with the usage text before anything
\* is read or written when the argument is not an IPv4 literal, and otherwise
\* starts the session with the address that prints back as the argument; the
\* Authenticated Operation only ever runs with an address of four octets.
C13_AddressValidated ==
    /\ []((stage = "new" /\ pc # "new" /\ ValidIpv4Text(addr)) =>
             /\ pc = "returned"
             /\ result = OK
             /\ Ipv4ToString(info.ipaddr) = addr)
    /\ []((stage = "new" /\ pc # "new" /\ ~ValidIpv4Text(addr)) =>
             /\ pc = "panic"
             /\ result = NoResult
             /\ info = NoInfo)
    /\ []((stage = "args" /\ pc # "parse") =>
             /\ pc = "usage"
             /\ ~ValidIpv4Text(addr)
             /\ log = <<>>
             /\ wire = <<>>)
    /\ [][(stage = "args" /\ stage' # "args") =>
             /\ ValidIpv4Text(addr)
             /\ stage' = "greeting"
             /\ Ipv4ToString(info'.ipaddr) = addr
             /\ log' = <<>>
             /\ wire' = <<>>]_vars
    /\ [](InMain => info.ipaddr \in [1..4 -> 0..255])

C13_Witness ==
    /\ stage = "new"
    /\ pc = "panic"
    /\ addr = <<"9", "9", "9", DOT, "1", DOT, "1", DOT, "1">>



\* ---------------------------------------------------------------------------
\* C14
\* ---------------------------------------------------------------------------

\* The first line of a response, without its line feed.
FirstLine(text) ==
    IF IndexOf(text, NL) = 0 THEN text
    ELSE SubSeq(text, 1, IndexOf(text, NL) - 1)

\* The leading field of a line: up to the first space or tab.
LeadingField(line) ==
    LET k == CHOOSE k \in 0..Len(line) :
                 /\ \A j \in 1..k : line[j] \notin {SP, TAB}
                 /\ k = Len(line) \/ line[k + 1] \in {SP, TAB}
    IN  SubSeq(line, 1, k)

\* C14: a response taken off the connection is classified by the leading
\* integer of its first line, whether the code stands alone on that line, is
\* followed by a space, or is followed by other whitespace: 0 gives Success
\* and 1..6 the named failures.
C14_ClassifiedByFirstLine ==
    [][(pc = "verify" /\ stage # "res_verify" /\ pc' # "verify") =>
          \A c \in 0..6 :
              LeadingField(FirstLine(buf)) = <<Digits[c + 1]>> =>
                  log' = Append(log, RecvEv(IF c = 0 THEN OK
                                            ELSE TaxonomyNames[c]))]_vars



\* ---------------------------------------------------------------------------
\* C15
\* ---------------------------------------------------------------------------

\* The positions of trace tr where a command is sent, and where the command
\* named name is sent.
AllSends(tr) == {i \in 1..Len(tr) : IsSend(tr[i])}
SendsOf(tr, name) == {i \in 1..Len(tr) : IsSend(tr[i]) /\ tr[i].cmd[1] = name}

\* The order of the commands sent so far: LOGIN at most once and before every
\* other command; MODIP at most once and right after the reply to LOGIN was
\* classified Success; the awaited LOGOUT call reached only after the reply
\* to MODIP was classified Success; no command sent again after a failed
\* reply to it.
SendOrder ==
    InMain =>
        LET tr == Trace
            sends == AllSends(tr)
            logins == SendsOf(tr, LOGIN)
            modips == SendsOf(tr, MODIP)
        IN  /\ Cardinality(logins) <= 1
            /\ \A i \in logins :
                  /\ tr[i] = SendEv(LoginCmd(info))
                  /\ \A j \in sends : i <= j
            /\ Cardinality(modips) <= 1
            /\ \A i \in modips :
                  /\ tr[i] = SendEv(ModipCmd(info))
                  /\ i >= 3
                  /\ tr[i - 1] = RecvEv(OK)
                  /\ tr[i - 2] = SendEv(LoginCmd(info))
            /\ stage = "logout" =>
                  \E i \in modips :
                      /\ i < Len(tr)
                      /\ tr[i + 1] = RecvEv(OK)
                      /\ \A j \in sends : j > i => tr[j] = SendEv(LogoutCmd)
            /\ \A i \in 2..Len(tr) :
                  (IsRecv(tr[i]) /\ tr[i].r # OK /\ IsSend(tr[i - 1])) =>
                      \A j \in sends : j > i => tr[j].cmd # tr[i - 1].cmd

\* C15: the Authenticated Operation performs no retries and no reordering:
\* in every execution LOGIN is sent at most once and first, MODIP at most once
\* and only after the LOGIN reply was classified Success, the awaited LOGOUT
\* call is made only after the MODIP reply was classified Success, a command
\* whose reply was a failure is never sent again, and every step leaves the
\* record of sends as it is or extends it by the command of the stage at hand.
C15_NoRetryNoReorder ==
    /\ []SendOrder
    /\ [][InMain' =>
             \/ SentCmds' = SentCmds
             \/ /\ Len(SentCmds') = Len(SentCmds) + 1
                /\ SubSeq(SentCmds', 1, Len(SentCmds)) = SentCmds
                /\ SentCmds'[Len(SentCmds')] = StageCmd(stage, info, cmd)]_vars

C15_Witness ==
    /\ stage = "modip_cleanup" /\ pc = "returned"
    /\ Outs = <<OK, OK, "DbError">>
    /\ SentCmds = <<LoginCmd(info), ModipCmd(info), LogoutCmd>>

\* ---------------------------------------------------------------------------
\* C16
\* ---------------------------------------------------------------------------

\* Once run_modip has returned a result and no write or read failed: exactly
\* one LOGOUT has been sent, it is the last command sent, and the bytes
\* written end with its frame, the only LOGOUT line among them.
OneLogoutLast ==
    (InMain /\ result # NoResult /\ NoFault) =>
        LET tr == Trace
            sends == AllSends(tr)
            logouts == SendsOf(tr, LOGOUT)
            lines == WireLines(wire)
        IN  /\ Cardinality(logouts) = 1
            /\ \A i \in logouts :
                  /\ tr[i] = SendEv(LogoutCmd)
                  /\ \A j \in sends : j <= i
            /\ EndsWith(wire, FrameBytes(LogoutCmd))
            /\ Cardinality({k \in 1..Len(lines) : lines[k] = LOGOUT}) = 1
            /\ (stage = "logout" /\ result # OK) =>
                  /\ tr[Len(tr)] = RecvEv(result)
                  /\ tr[Len(tr) - 1] = SendEv(LogoutCmd)

\* C16: on every execution of run_modip that returns a result with no
\* transport failure, exactly one LOGOUT frame has been written and it is the
\* last frame written; once the result is there, a failed reply to the
\* awaited LOGOUT included, nothing more is sent, written or classified.
C16_ExactlyOneLogoutLast ==
    /\ []OneLogoutLast
    /\ [][(InMain /\ result # NoResult) =>
             /\ InMain'
             /\ wire' = wire
             /\ SentCmds' = SentCmds
             /\ Outs' = Outs]_vars

C16_Witness ==
    /\ stage = "logout" /\ pc = "returned"
    /\ result = "NotFound"
    /\ NoFault
    /\ Outs = <<OK, OK, OK, "NotFound">>


====
